---- MODULE Spec2Model ----
(***************************************************************************)
(* Model of the HTTP route handlers of the FPS validation dashboard:       *)
(*   validation      frontend/src/routes/validation-status/+server.ts      *)
(*   validationMock  unnamed/part_000  (/validation-status, mock fallback) *)
(*   simMock         unnamed/part_001  (/sim.json, mock fallback)          *)
(*   sim             unnamed/part_002  (/sim.json)                         *)
(* Each handler callback runs to completion on the single-threaded event   *)
(* loop, so each callback is one action.                                   *)
(*                                                                         *)
(* Numbers.  Layer details and overall_score are held in thousandths       *)
(* (0.714 is 714).  The mock trace is held in fixed point with FP units    *)
(* per 1 (1.618 is 16180); Math.sin, Math.cos and Math.exp are computed by *)
(* range reduction and Taylor polynomials, accurate to a few units.        *)
(* Texts coming from or about the child process (stdout, stderr, error     *)
(* messages) are sequences of tokens.                                      *)
(***************************************************************************)
EXTENDS Integers, Sequences, FiniteSets, TLC

VARIABLES
    env,          \* process.env: VERCEL and AWS_LAMBDA_FUNCTION_NAME
    now,          \* the clock read by new Date(); one tick per request
    handler,      \* the route handler serving the current request
    pc,           \* "idle" | "waiting" (promise pending) | "done"
    spawnCalls,   \* calls of spawn() made by the current request
    child,        \* the child process: "none" | "running" | "failed" | "errored" | "closed"
    dataEvents,   \* 'data' events the child has emitted
    exitCode,     \* <<>> or <<the code passed to the 'close' handler>>
    output,       \* let output = ''       (stdout accumulator)
    errorOutput,  \* let errorOutput = ''  (stderr accumulator)
    response,     \* <<>> or <<the Response the request's promise settled with>>
    resolveCalls, \* calls of resolve() / returns of a Response for this request
    calcStatuses, \* five layer statuses the overall-status computations are applied to
    calcResult,   \* which computation ran last on calcStatuses, and its status and score
    prev,         \* <<>> or <<what is remembered of the last earlier report or mock trace>>
    currentTab,        \* +page.svelte: let currentTab = 'mathematics'
    validationStatus,  \* let validationStatus = null: <<>> or <<the report loaded>>
    simulationResults, \* let simulationResults = null: <<>> or <<the results loaded>>
    isLoading,         \* let isLoading = false
    pending,           \* loads in flight, per kind
    loads,             \* loads started so far
    lastResult,        \* the load that completed last, and whether it loaded a value
    showDetails,       \* let showDetails = {}: section -> "undefined" | "true" | "false"
    toggles,           \* calls of toggleDetails so far
    coreCfg,      \* RunConfig of the core run: the input scenario
    coreT,        \* index of the last completed time step
    coreContrib,  \* S_i(t) of each strate at the last completed step
    coreUsed,     \* the S_i the frequency modulation of the last step read
    coreS,        \* the run trace so far: S(0), S(dt), ...
    gates,        \* the applications of sigma so far: <<[x, out], ...>>
    reqs,         \* requests served side by side: slot -> the request's closure
    started       \* requests started side by side so far

vars == <<env, now, handler, pc, spawnCalls, child, dataEvents, exitCode,
          output, errorOutput, response, resolveCalls, calcStatuses, calcResult,
          prev, currentTab, validationStatus, simulationResults, isLoading,
          pending, loads, lastResult, showDetails, toggles, coreCfg, coreT, coreContrib, coreUsed, coreS, gates,
          reqs, started>>

concVars == <<reqs, started>>

coreVars == <<coreCfg, coreT, coreContrib, coreUsed, coreS, gates>>

dashVars == <<currentTab, validationStatus, simulationResults, isLoading,
              pending, loads, lastResult, showDetails, toggles>>

reqVars == <<env, now, handler, pc, spawnCalls, child, dataEvents, exitCode,
             output, errorOutput, response, resolveCalls, prev>>

(***************************************************************************)
(* Bounds                                                                  *)
(***************************************************************************)
MaxRequests == 2   \* requests served one after the other
MaxChunks == 3     \* 'data' events one child emits
MaxLoads == 3      \* loads the dashboard starts
MaxToggles == 2    \* calls of toggleDetails
MaxSteps == 4      \* time steps of a core run
MaxOffset == 10    \* input levels: x0 - MaxOffset/2 .. x0 + MaxOffset/2

Handlers == {"validation", "validationMock", "sim", "simMock"}
MockHandlers == {"validationMock", "simMock"}
ValidationHandlers == {"validation", "validationMock"}
SimHandlers == {"sim", "simMock"}

Unset == "<unset>"
VercelValues == {Unset, "", "1"}
LambdaValues == {Unset, "fn"}

\* JavaScript truthiness of an environment variable: undefined and '' are falsy.
Truthy(v) == v /= Unset /\ v /= ""

\* const isServerless = process.env.VERCEL || process.env.AWS_LAMBDA_FUNCTION_NAME
isServerless(e) == Truthy(e.VERCEL) \/ Truthy(e.AWS_LAMBDA_FUNCTION_NAME)

Statuses == {"pass", "fail", "partial", "not_implemented"}

(***************************************************************************)
(* The five layers built by the 'close' handler of /validation-status      *)
(* (+server.ts 44-123; part_000 159-238 is the same text).                 *)
(***************************************************************************)
closeLayers == <<
    [id |-> 1, name |-> "Code-level Correctness", status |-> "fail",
     description |-> "Unit & property tests for each formula",
     requirement |-> "pytest -q returns 0",
     details |-> [total_tests |-> 12, passed_tests |-> 7, failed_tests |-> 5,
                  failures |-> <<"sigma bounds (hitting 0 and 1 exactly)",
                                 "tanh bounds (hitting +-1 exactly)",
                                 "missing _compute_S method",
                                 "missing _compute_frequency_modulation method",
                                 "property test bounds violations">>]],
    [id |-> 2, name |-> "Simulation Fidelity", status |-> "partial",
     description |-> "Golden run byte-for-byte reproducibility",
     requirement |-> "SHA-256 hashes match reference",
     details |-> [golden_run_implemented |-> TRUE,
                  hash_validation_implemented |-> TRUE,
                  reference_hashes_exist |-> FALSE,
                  csv_hash |-> "121af74e644fe3ff647a52cb638844f56fc3ac337fef336549eacb207dbd759c",
                  png_hash |-> "02ceae783b5df8466d4d04b0b0d7d877c1534565fabe1b1b933134fa91d518e8"]],
    [id |-> 3, name |-> "Metric Compliance", status |-> "fail",
     description |-> "All 7 quantitative criteria pass",
     requirement |-> "All assertions pass, empty criteria_failures.csv",
     details |-> [pass_rate |-> 714, passed_metrics |-> 5, total_metrics |-> 7,
                  failed_metrics |-> <<"fluidity", "stability">>,
                  fluidity_variance |-> 386, fluidity_threshold |-> 10,
                  stability_percentage |-> 792, stability_threshold |-> 950,
                  max_amplitude_ratio |-> 257800]],
    [id |-> 4, name |-> "Comparative Edge", status |-> "partial",
     description |-> "Outperforms Kuramoto control",
     requirement |-> "CPU <= 2x FPS, Regulation >= 25% better",
     details |-> [cpu_efficiency_ratio |-> 40, cpu_efficiency_threshold |-> 2000,
                  cpu_efficiency_passed |-> TRUE,
                  regulation_comparison_implemented |-> FALSE,
                  regulation_passed |-> "null"]],
    [id |-> 5, name |-> "Visual Fidelity", status |-> "not_implemented",
     description |-> "Figure generation with pixel-diff validation",
     requirement |-> "Fig 1 & Fig 2 pixel-diff < 2%",
     details |-> [fig1_implemented |-> FALSE, fig2_implemented |-> FALSE,
                  pixel_diff_validation |-> FALSE,
                  reference_images_exist |-> FALSE]] >>

(***************************************************************************)
(* The five layers of generateMockValidationStatus (part_000 23-107).      *)
(***************************************************************************)
mockLayers == <<
    [id |-> 1, name |-> "Code-level Correctness", status |-> "partial",
     description |-> "Unit & property tests for each formula",
     requirement |-> "pytest -q returns 0",
     details |-> [total_tests |-> 12, passed_tests |-> 9, failed_tests |-> 3,
                  failures |-> <<"sigma bounds (hitting 0 and 1 exactly)",
                                 "tanh bounds (hitting +-1 exactly)",
                                 "property test bounds violations">>,
                  note |-> "Mock data - Python validation not available in serverless environment"]],
    [id |-> 2, name |-> "Simulation Fidelity", status |-> "pass",
     description |-> "Golden run byte-for-byte reproducibility",
     requirement |-> "SHA-256 hashes match reference",
     details |-> [golden_run_implemented |-> TRUE,
                  hash_validation_implemented |-> TRUE,
                  reference_hashes_exist |-> TRUE,
                  csv_hash |-> "121af74e644fe3ff647a52cb638844f56fc3ac337fef336549eacb207dbd759c",
                  png_hash |-> "02ceae783b5df8466d4d04b0b0d7d877c1534565fabe1b1b933134fa91d518e8",
                  note |-> "Mock data - simulated validation results"]],
    [id |-> 3, name |-> "Metric Compliance", status |-> "partial",
     description |-> "All 7 quantitative criteria pass",
     requirement |-> "All assertions pass, empty criteria_failures.csv",
     details |-> [pass_rate |-> 857, passed_metrics |-> 6, total_metrics |-> 7,
                  failed_metrics |-> <<"fluidity">>,
                  fluidity_variance |-> 12, fluidity_threshold |-> 10,
                  stability_percentage |-> 960, stability_threshold |-> 950,
                  max_amplitude_ratio |-> 8200,
                  note |-> "Mock data - improved validation metrics"]],
    [id |-> 4, name |-> "Comparative Edge", status |-> "pass",
     description |-> "Outperforms Kuramoto control",
     requirement |-> "CPU <= 2x FPS, Regulation >= 25% better",
     details |-> [cpu_efficiency_ratio |-> 40, cpu_efficiency_threshold |-> 2000,
                  cpu_efficiency_passed |-> TRUE,
                  regulation_comparison_implemented |-> TRUE,
                  regulation_passed |-> "true",
                  regulation_improvement |-> 320,
                  note |-> "Mock data - simulated performance comparison"]],
    [id |-> 5, name |-> "Visual Fidelity", status |-> "partial",
     description |-> "Figure generation with pixel-diff validation",
     requirement |-> "Fig 1 & Fig 2 pixel-diff < 2%",
     details |-> [fig1_implemented |-> TRUE, fig2_implemented |-> FALSE,
                  pixel_diff_validation |-> TRUE,
                  reference_images_exist |-> TRUE,
                  fig1_pixel_diff |-> 15,
                  note |-> "Mock data - partial visual validation"]] >>

\* layers.filter(l => l.status === s).length
countStatus(layers, s) == Cardinality({i \in DOMAIN layers : layers[i].status = s})

(***************************************************************************)
(* Overall score and status of the 'close' handler (+server.ts 125-129,    *)
(* part_000 240-244), in thousandths: passedLayers / totalLayers.          *)
(***************************************************************************)
closeOverallScore(layers) == (countStatus(layers, "pass") * 1000) \div Len(layers)

closeOverallStatus(layers) ==
    IF closeOverallScore(layers) = 1000 THEN "pass" ELSE "fail"

(***************************************************************************)
(* Overall score and status of generateMockValidationStatus (part_000      *)
(* 109-114): (passedLayers + partialLayers * 0.5) / totalLayers, 'pass'    *)
(* when the score is >= 0.8.                                               *)
(***************************************************************************)
\* mutant: the sum is not divided by totalLayers
mockOverallScoreUndivided(layers) ==
    countStatus(layers, "pass") * 1000 + countStatus(layers, "partial") * 500

mockOverallScore(layers) ==
    (countStatus(layers, "pass") * 1000 + countStatus(layers, "partial") * 500)
        \div Len(layers)

mockOverallStatus(layers) ==
    IF mockOverallScore(layers) >= 800 THEN "pass" ELSE "fail"

\* mutant: the fluidity variance reported is below its threshold while
\* fluidity stays listed as failed
closeValidationStatusSmooth(layers, clock) ==
    [overall_status |-> closeOverallStatus(layers),
     overall_score |-> closeOverallScore(layers),
     layers |-> [layers EXCEPT ![3].details.fluidity_variance = 5],
     last_updated |-> clock]

\* The ValidationStatus object of the 'close' handler (+server.ts 131-136).
closeValidationStatus(layers, clock) ==
    [overall_status |-> closeOverallStatus(layers),
     overall_score |-> closeOverallScore(layers),
     layers |-> layers,
     last_updated |-> clock]

\* mutant: layer 3 of the mock report is marked 'pass' with a metric failing
generateMockValidationStatusL3Pass(clock) ==
    [overall_status |-> mockOverallStatus(mockLayers),
     overall_score |-> mockOverallScore(mockLayers),
     layers |-> [mockLayers EXCEPT ![3].status = "pass"],
     last_updated |-> clock]

\* generateMockValidationStatus() (part_000 22-122).
generateMockValidationStatus(clock) ==
    [overall_status |-> mockOverallStatus(mockLayers),
     overall_score |-> mockOverallScore(mockLayers),
     layers |-> mockLayers,
     last_updated |-> clock]

(***************************************************************************)
(* Fixed-point arithmetic for the mock trace (part_001 16-23).             *)
(***************************************************************************)
FP == 100 * 100

Mul(a, b) == (a * b) \div FP

PI == 31416

\* sin on [0, PI/2]: x - x^3/3! + x^5/5! - x^7/7! + x^9/9!
SinTaylor(x) ==
    LET x2 == Mul(x, x)
        t3 == Mul(x, x2) \div 6
        t5 == Mul(t3, x2) \div 20
        t7 == Mul(t5, x2) \div 42
        t9 == Mul(t7, x2) \div 72
    IN  x - t3 + t5 - t7 + t9

\* Math.sin
Sin(x) ==
    LET m == x % (2 * PI)
    IN  IF m <= PI \div 2 THEN SinTaylor(m)
        ELSE IF m <= PI THEN SinTaylor(PI - m)
        ELSE IF m <= PI + PI \div 2 THEN 0 - SinTaylor(m - PI)
        ELSE 0 - SinTaylor(2 * PI - m)

\* Math.cos
Cos(x) == Sin(x + PI \div 2)

\* Math.exp for the small arguments of the mock trace (|x| < 0.2)
Exp(x) ==
    LET x2 == Mul(x, x)
        x3 == Mul(x2, x)
        x4 == Mul(x3, x)
    IN  FP + x + x2 \div 2 + x3 \div 6 + x4 \div 24

N == 100
phi == 16180
epsilon == 500
omega == 1000

\* const t = Array.from({ length: N }, (_, i) => i * 0.2)
mockT == [i \in 1..N |-> (i - 1) * 2000]

\* mutant: the sine is not scaled by epsilon
mockRUnscaled(time) == phi + Sin(Mul(Mul(2 * PI, omega), time))

\* phi + epsilon * Math.sin(2 * Math.PI * omega * time)
mockR(time) == phi + Mul(epsilon, Sin(Mul(Mul(2 * PI, omega), time)))

\* Math.sin(2 * Math.PI * 0.1 * time) * Math.exp(-time * 0.01)
mockS(time) == Mul(Sin(Mul(Mul(2 * PI, 1000), time)), Exp(Mul(0 - time, 100)))

\* 0.5 + 0.3 * Math.cos(2 * Math.PI * 0.05 * time)
mockC(time) == 5000 + Mul(3000, Cos(Mul(Mul(2 * PI, 500), time)))

\* generateMockSimData() (part_001 14-26)
generateMockSimData ==
    [t |-> mockT,
     C |-> [i \in 1..N |-> mockC(mockT[i])],
     S |-> [i \in 1..N |-> mockS(mockT[i])],
     r |-> [i \in 1..N |-> mockR(mockT[i])]]

\* { ...mockData, note }
mockWithNote(note) ==
    [t |-> generateMockSimData.t, C |-> generateMockSimData.C,
     S |-> generateMockSimData.S, r |-> generateMockSimData.r,
     note |-> note]

\* { ...mockData, note, error }
mockWithNoteError(note, error) ==
    [t |-> generateMockSimData.t, C |-> generateMockSimData.C,
     S |-> generateMockSimData.S, r |-> generateMockSimData.r,
     note |-> note, error |-> error]

(***************************************************************************)
(* The child's output.  A text is a sequence of tokens.  The JSON texts    *)
(* the model knows are "{" item* "}", every item standing for one element  *)
(* of the t, S, C or r array of the document: "t0" and "t1" are the times  *)
(* 0 and 0.2, "S", "C" and "r" one sample of that series.  Anything else   *)
(* (a truncated document, text before or after it) does not parse.         *)
(***************************************************************************)
ItemTokens == {"t0", "t1", "S", "C", "r"}

StdoutChunks ==
    { <<"{", "t0", "t1", "S", "S">>,        \* head of a two-sample trace
      <<"C", "C", "r", "r", "}">>,          \* its tail
      <<"C", "r", "}">>,                    \* a tail one C and one r short
      <<"{", "t1", "t0", "S", "S">>,        \* a head whose times go backwards
      <<"warning: overflow in exp">> }      \* text that is no JSON

StderrChunks == { <<"Traceback (most recent call last):">> }

ExitCodes == {0, 1}

\* the code 'close' reports for a child that could not be spawned (-ENOENT)
SpawnFailCode == 0 - 2

\* error.message of a failed or throwing spawn
SpawnErrorMessage == <<"spawn python3 ENOENT">>
ThrownErrorMessage == <<"spawn EPERM">>

\* Does JSON.parse(text) return (TRUE) or throw (FALSE)?
isJSON(text) ==
    /\ Len(text) >= 2
    /\ text[1] = "{"
    /\ text[Len(text)] = "}"
    /\ \A i \in 2..(Len(text) - 1) : text[i] \in ItemTokens

RECURSIVE itemsOf(_, _)
\* the samples the items of one series contribute, in document order
itemsOf(text, series) ==
    IF text = <<>> THEN <<>>
    ELSE LET tok == Head(text)
             here == IF series = "t" /\ tok = "t0" THEN <<0>>
                     ELSE IF series = "t" /\ tok = "t1" THEN <<2000>>
                     ELSE IF series = "S" /\ tok = "S" THEN <<0>>
                     ELSE IF series = "C" /\ tok = "C" THEN <<5000>>
                     ELSE IF series = "r" /\ tok = "r" THEN <<16180>>
                     ELSE <<>>
         IN  here \o itemsOf(Tail(text), series)

\* JSON.parse(text) for a text that parses
JSONparse(text) ==
    [t |-> itemsOf(text, "t"), C |-> itemsOf(text, "C"),
     S |-> itemsOf(text, "S"), r |-> itemsOf(text, "r")]

(***************************************************************************)
(* Responses.  A Response is [status, body]; a body is the JSON value the  *)
(* client reads back.  In bodies that are no validation report the fields  *)
(* error and details are texts.                                            *)
(***************************************************************************)
Ok(body) == [status |-> 200, body |-> body]
Failure(body) == [status |-> 500, body |-> body]

\* /validation-status, python.on('close') (+server.ts 42-142, part_000 157-257)
\* mutant: a non-zero exit code is answered as an error, as /sim.json does
validationCloseFailsOnCode(code, clock) ==
    IF code /= 0
    THEN Failure([error |-> <<"Validation failed">>, details |-> <<>>])
    ELSE Ok(closeValidationStatus(closeLayers, clock))

\* mutant: the regulation comparison that is not implemented counts as passed
validationCloseRegulationPassed(code, clock) ==
    Ok([closeValidationStatus(closeLayers, clock)
            EXCEPT !.layers[4].details.regulation_passed = "true",
                   !.layers[4].status = "pass"])

\* mutant: the report counts one failed test fewer than it lists
validationCloseMiscounts(code, clock) ==
    Ok([closeValidationStatus(closeLayers, clock)
            EXCEPT !.layers[1].details.failed_tests = @ - 1])

validationClose(code, clock) == Ok(closeValidationStatus(closeLayers, clock))

\* /validation-status, python.on('error') (+server.ts 144-156)
validationError ==
    Failure([error |-> <<"Failed to run validation">>, details |-> SpawnErrorMessage])

\* /validation-status, catch (+server.ts 159-171)
validationCatch ==
    Failure([error |-> <<"Internal server error">>, details |-> ThrownErrorMessage])

\* mutant: the mock report stops counting metrics at the first failed one
validationMockFallbackHalted(clock) ==
    Ok([generateMockValidationStatus(clock)
            EXCEPT !.layers[3].details.total_metrics = 1,
                   !.layers[3].details.passed_metrics = 0])

\* /validation-status with mock: serverless branch, python.on('error') and
\* catch all answer with the mock report (part_000 129-136, 259-267, 270-278)
validationMockFallback(clock) == Ok(generateMockValidationStatus(clock))

\* mutant: the exit code is not looked at before the output is parsed
simCloseIgnoresCode(code, out, err) ==
    IF isJSON(out)
    THEN Ok(JSONparse(out))
    ELSE Failure([error |-> <<"Failed to parse simulation results">>])

\* /sim.json, python.on('close') (part_002 34-68)
simClose(code, out, err) ==
    IF code /= 0
    THEN Failure([error |-> <<"Simulation failed">>, details |-> err])
    ELSE IF isJSON(out)
         THEN Ok(JSONparse(out))
         ELSE Failure([error |-> <<"Failed to parse simulation results">>])

\* /sim.json, python.on('error') (part_002 70-82)
simError ==
    Failure([error |-> <<"Failed to start simulation">>, details |-> SpawnErrorMessage])

\* /sim.json, catch (part_002 85-97)
simCatch ==
    Failure([error |-> <<"Internal server error">>, details |-> ThrownErrorMessage])

\* /sim.json with mock, serverless branch (part_001 33-43)
simMockServerless ==
    Ok(mockWithNote("Mock data - Python backend not available in serverless environment"))

\* mutant: a non-zero exit code is answered as the handler without mock
\* answers it
simMockCloseFails(code, out, err) ==
    IF code /= 0
    THEN Failure([error |-> <<"Simulation failed">>, details |-> err])
    ELSE IF isJSON(out)
         THEN Ok(JSONparse(out))
         ELSE Ok(mockWithNote("Mock data - Failed to parse Python simulation results"))

\* /sim.json with mock, python.on('close') (part_001 64-98)
simMockClose(code, out, err) ==
    IF code /= 0
    THEN Ok(mockWithNoteError("Mock data - Python simulation failed", err))
    ELSE IF isJSON(out)
         THEN Ok(JSONparse(out))
         ELSE Ok(mockWithNote("Mock data - Failed to parse Python simulation results"))

\* mutant: the fallback of a failed spawn serves the mock data bare
simMockErrorSilent ==
    Ok([t |-> generateMockSimData.t, C |-> generateMockSimData.C,
        S |-> generateMockSimData.S, r |-> generateMockSimData.r])

\* /sim.json with mock, python.on('error') (part_001 100-111)
simMockError == Ok(mockWithNote("Mock data - Failed to start Python simulation"))

\* /sim.json with mock, catch (part_001 114-126)
simMockCatch ==
    Ok(mockWithNoteError("Mock data - Internal server error", ThrownErrorMessage))

\* the 'close' handler the request's GET registered
closeResponse(h, code, out, err, clock) ==
    CASE h \in ValidationHandlers -> validationClose(code, clock)
      [] h = "sim" -> simClose(code, out, err)
      [] h = "simMock" -> simMockClose(code, out, err)

\* the 'error' handler the request's GET registered
errorResponse(h, clock) ==
    CASE h = "validation" -> validationError
      [] h = "validationMock" -> validationMockFallback(clock)
      [] h = "sim" -> simError
      [] h = "simMock" -> simMockError

\* the catch block of the request's GET
catchResponse(h, clock) ==
    CASE h = "validation" -> validationCatch
      [] h = "validationMock" -> validationMockFallback(clock)
      [] h = "sim" -> simCatch
      [] h = "simMock" -> simMockCatch

\* mutant: the time axis of the serverless mock trace starts at the time of
\* the request
serverlessResponseStamped(h, clock) ==
    CASE h = "validationMock" -> validationMockFallback(clock)
      [] h = "simMock" ->
            Ok([simMockServerless.body
                    EXCEPT !.t = <<clock>> \o Tail(generateMockSimData.t)])

\* the serverless branch of a handler with mock fallback
serverlessResponse(h, clock) ==
    CASE h = "validationMock" -> validationMockFallback(clock)
      [] h = "simMock" -> simMockServerless

\* Does this GET take the serverless branch?  Only the handlers with mock
\* fallback test the environment (part_000 127-129, part_001 31-33).
takesMock(h, e) == h \in MockHandlers /\ isServerless(e)

(***************************************************************************)
(* The simulation core: the equations of the brief (part_003 5-20), in the *)
(* same fixed point as the mock trace.  The Python of the core is not in   *)
(* the repository; the order of its steps is the one the specification     *)
(* lays down: a fold over time.                                            *)
(***************************************************************************)
\* e^n for n = 0..12
expInt ==
    << 10000, 27183, 73891, 200855, 545982, 1484132, 4034288, 10966332,
       29809580, 81030839, 220264658, 598741417, 1627547914 >>

\* e^f for 0 <= f < 1: the Taylor series to the eighth power
expFrac(f) ==
    LET t2 == Mul(f, f) \div 2
        t3 == Mul(t2, f) \div 3
        t4 == Mul(t3, f) \div 4
        t5 == Mul(t4, f) \div 5
        t6 == Mul(t5, f) \div 6
        t7 == Mul(t6, f) \div 7
        t8 == Mul(t7, f) \div 8
    IN  FP + f + t2 + t3 + t4 + t5 + t6 + t7 + t8

\* exp(y) in finite precision: e^floor(y) * e^frac(y); beyond the table it
\* underflows to 0 and saturates at the largest entry
expWide(y) ==
    LET n == y \div FP
        f == y % FP
    IN  IF n < 0 - (Len(expInt) - 1) THEN 0
        ELSE IF n < 0 THEN Mul((FP * FP) \div expInt[1 - n], expFrac(f))
        ELSE IF n > Len(expInt) - 1 THEN expInt[Len(expInt)]
        ELSE (expInt[n + 1] \div FP) * expFrac(f)
                 + Mul(expInt[n + 1] % FP, expFrac(f))

sigmaK == 20000
sigmaX0 == 5000

\* sigma(x) = 1 / (1 + e^(-k (x - x0)))
sigma(x) == (FP * FP) \div (FP + expWide(Mul(0 - sigmaK, x - sigmaX0)))

alpha == 5000
w == 1000
dt == 1000
Strates == {1, 2}
A0 == FP
f0 == [n \in Strates |-> FP + (n - 1) * 5000]
phase == [n \in Strates |-> (n - 1) * (PI \div 2)]

\* the input scenarios I_n(t): constant, step at T/4 and linear ramp over
\* [0, T], each to a level of the run
Scenarios == {"constant", "step", "ramp"}
Levels == {sigmaX0 + i * 5000 : i \in (0 - MaxOffset)..MaxOffset}
Configs == [kind : Scenarios, level : Levels]
NoScenario == [kind |-> "constant", level |-> sigmaX0]

\* I(t) of a scenario at step index i
input(cfg, i) ==
    CASE cfg.kind = "constant" -> cfg.level
      [] cfg.kind = "step" -> IF 4 * i >= MaxSteps THEN cfg.level ELSE 0
      [] cfg.kind = "ramp" -> (cfg.level * i) \div MaxSteps

\* Delta f_n = alpha_n * sum_i w_ni * S_i, summed in ascending index
RECURSIVE weightedSum(_, _)
weightedSum(prior, n) ==
    IF n = 0 THEN 0 ELSE weightedSum(prior, n - 1) + Mul(w, prior[n])

deltaF(prior) == Mul(alpha, weightedSum(prior, Cardinality(Strates)))

\* A_n(t) sin(2 pi f_n(t) t + phi_n) of each strate at step index i, given
\* the contributions of the step before
contributions(cfg, i, prior) ==
    [n \in Strates |->
        Mul(Mul(A0, sigma(input(cfg, i))),
            Sin(Mul(2 * PI, Mul(f0[n] + deltaF(prior), i * dt)) + phase[n]))]

\* S(t) = sum_n of the contributions, in ascending index
RECURSIVE total(_, _)
total(contrib, n) ==
    IF n = 0 THEN 0 ELSE total(contrib, n - 1) + contrib[n]

NoContrib == [n \in Strates |-> 0]

\* the run at t = 0: nothing precedes the first sample
CoreInit(cfg) ==
    /\ coreCfg = cfg
    /\ coreT = 0
    /\ coreContrib = contributions(cfg, 0, NoContrib)
    /\ coreUsed = NoContrib
    /\ coreS = <<total(contributions(cfg, 0, NoContrib), Cardinality(Strates))>>
    /\ gates = <<[x |-> input(cfg, 0), out |-> sigma(input(cfg, 0))]>>

(***************************************************************************)
(* State machine                                                           *)
(***************************************************************************)
SpawnOutcomes == {"started", "failed", "throw"}

\* side by side: no request yet in either slot
Slots == {1, 2}

NoRequest ==
    [handler |-> "none", child |-> "none", output |-> <<>>, errorOutput |-> <<>>,
     written |-> <<>>, writtenErr |-> <<>>, exitCode |-> <<>>, response |-> <<>>,
     events |-> 0]

ConcInit ==
    /\ reqs = [i \in Slots |-> NoRequest]
    /\ started = 0

\* the dashboard as its script block leaves it (+page.svelte 7-11)
NoLoads == [validation |-> 0, results |-> 0]

\* the keys toggleDetails is called with: `eq${equation.id}`
Sections == {"eq1", "eq2", "eq3", "eq4", "eq5", "eq6"}

DashInit ==
    /\ currentTab = "mathematics"
    /\ validationStatus = <<>>
    /\ simulationResults = <<>>
    /\ isLoading = FALSE
    /\ pending = NoLoads
    /\ loads = 0
    /\ lastResult = [kind |-> "none", loaded |-> FALSE]
    /\ showDetails = [section \in Sections |-> "undefined"]
    /\ toggles = 0

\* the statuses of the layers the 'close' handler builds
closeStatuses == [i \in DOMAIN closeLayers |-> closeLayers[i].status]

NoCalc == [path |-> "none", status |-> "none", score |-> 0]

Init ==
    /\ env \in [VERCEL : VercelValues, AWS_LAMBDA_FUNCTION_NAME : LambdaValues]
    /\ now = 0
    /\ handler = "none"
    /\ pc = "idle"
    /\ spawnCalls = 0
    /\ child = "none"
    /\ dataEvents = 0
    /\ exitCode = <<>>
    /\ output = <<>>
    /\ errorOutput = <<>>
    /\ response = <<>>
    /\ resolveCalls = 0
    /\ calcStatuses = closeStatuses
    /\ calcResult = NoCalc
    /\ prev = <<>>
    /\ DashInit
    /\ CoreInit(NoScenario)
    /\ ConcInit

\* mutant: a later resolve() replaces the Response
ResolveLastWins(r) ==
    /\ response' = <<r>>
    /\ resolveCalls' = resolveCalls + 1
    /\ pc' = "done"

\* mutant: every resolve() sends one more Response
ResolveAppends(r) ==
    /\ response' = Append(response, r)
    /\ resolveCalls' = resolveCalls + 1
    /\ pc' = "done"

\* mutant: the callback runs but never calls resolve()
ResolveDropped(r) ==
    /\ response' = response
    /\ resolveCalls' = resolveCalls
    /\ pc' = pc

\* resolve(r) of the request's promise: only the first call settles it
Resolve(r) ==
    /\ response' = IF Len(response) = 0 THEN <<r>> ELSE response
    /\ resolveCalls' = resolveCalls + 1
    /\ pc' = "done"

\* the bodies whose repetition is compared: validation reports and mock traces
Comparable(b) == "layers" \in DOMAIN b \/ ("t" \in DOMAIN b /\ "note" \in DOMAIN b)

\* what is remembered of a comparable body: a report whole, a mock trace
\* without the error details some fallbacks attach to it
Remembered(b) ==
    IF "layers" \in DOMAIN b
    THEN b
    ELSE [t |-> b.t, C |-> b.C, S |-> b.S, r |-> b.r, note |-> b.note]

\* GET: the synchronous part of the handler, up to its return; the request
\* before it is over, and its body is remembered if it is a comparable one
Get(h, outcome) ==
    /\ pc /= "waiting"
    /\ now < MaxRequests
    /\ now' = now + 1
    /\ handler' = h
    /\ dataEvents' = 0
    /\ exitCode' = <<>>
    /\ output' = <<>>
    /\ errorOutput' = <<>>
    /\ IF takesMock(h, env)
       THEN /\ spawnCalls' = 0
            /\ child' = "none"
            /\ response' = <<serverlessResponse(h, now')>>
            /\ resolveCalls' = 1
            /\ pc' = "done"
       ELSE /\ spawnCalls' = 1
            /\ IF outcome = "throw"
               THEN /\ child' = "none"
                    /\ response' = <<catchResponse(h, now')>>
                    /\ resolveCalls' = 1
                    /\ pc' = "done"
               ELSE /\ child' = IF outcome = "started" THEN "running" ELSE "failed"
                    /\ response' = <<>>
                    /\ resolveCalls' = 0
                    /\ pc' = "waiting"
    /\ prev' = IF Len(response) = 1 /\ Comparable(response[1].body)
               THEN <<Remembered(response[1].body)>>
               ELSE prev
    /\ UNCHANGED <<env, calcStatuses, calcResult, dashVars, coreVars,
                   concVars>>

\* python.stdout.on('data'): output += data.toString()
StdoutData(c) ==
    /\ child = "running"
    /\ dataEvents < MaxChunks
    /\ output' = output \o c
    /\ dataEvents' = dataEvents + 1
    /\ UNCHANGED <<env, now, handler, pc, spawnCalls, child, exitCode,
                   errorOutput, response, resolveCalls, calcStatuses, calcResult, prev,
                   dashVars, coreVars,
                   concVars>>

\* python.stderr.on('data'): errorOutput += data.toString()
StderrData(c) ==
    /\ child = "running"
    /\ dataEvents < MaxChunks
    /\ errorOutput' = errorOutput \o c
    /\ dataEvents' = dataEvents + 1
    /\ UNCHANGED <<env, now, handler, pc, spawnCalls, child, exitCode,
                   output, response, resolveCalls, calcStatuses, calcResult, prev,
                   dashVars, coreVars,
                   concVars>>

\* python.on('close'): after the child exited, or after the 'error' of a
\* child that could not be spawned
Close(code) ==
    /\ \/ child = "running" /\ code \in ExitCodes
       \/ child = "errored" /\ code = SpawnFailCode
    /\ child' = "closed"
    /\ exitCode' = <<code>>
    /\ Resolve(closeResponse(handler, code, output, errorOutput, now))
    /\ UNCHANGED <<env, now, handler, spawnCalls, dataEvents, output,
                   errorOutput, calcStatuses, calcResult, prev,
                   dashVars, coreVars,
                   concVars>>

\* python.on('error'): the child could not be spawned
Error ==
    /\ child = "failed"
    /\ child' = "errored"
    /\ Resolve(errorResponse(handler, now))
    /\ UNCHANGED <<env, now, handler, spawnCalls, dataEvents, exitCode, output,
                   errorOutput, calcStatuses, calcResult, prev,
                   dashVars, coreVars,
                   concVars>>

Next ==
    \/ \E h \in Handlers, outcome \in SpawnOutcomes : Get(h, outcome)
    \/ \E c \in StdoutChunks : StdoutData(c)
    \/ \E c \in StderrChunks : StderrData(c)
    \/ \E code \in ExitCodes \cup {SpawnFailCode} : Close(code)
    \/ Error

Spec == Init /\ [][Next]_vars

\* the child's 'close' event, whatever its code
CloseEvent == \E code \in ExitCodes \cup {SpawnFailCode} : Close(code)

\* one environment with a serverless variable set and one without
InitLive ==
    /\ Init
    /\ env.AWS_LAMBDA_FUNCTION_NAME = Unset
    /\ env.VERCEL \in {Unset, "1"}

\* The same machine with a child that eventually emits the events it has
\* pending: 'close' once it runs, 'error' once its spawn failed.
SpecLive == InitLive /\ [][Next]_vars /\ WF_vars(CloseEvent) /\ WF_vars(Error)

(***************************************************************************)
(* The two overall-status computations as functions of the five layer      *)
(* statuses: Init draws the statuses, the actions apply the computations.  *)
(***************************************************************************)
withStatuses(layers, st) == [i \in DOMAIN layers |-> [layers[i] EXCEPT !.status = st[i]]]

InitCalc ==
    /\ env = [VERCEL |-> Unset, AWS_LAMBDA_FUNCTION_NAME |-> Unset]
    /\ now = 0
    /\ handler = "none"
    /\ pc = "idle"
    /\ spawnCalls = 0
    /\ child = "none"
    /\ dataEvents = 0
    /\ exitCode = <<>>
    /\ output = <<>>
    /\ errorOutput = <<>>
    /\ response = <<>>
    /\ resolveCalls = 0
    /\ calcStatuses \in [DOMAIN closeLayers -> Statuses]
    /\ calcResult = NoCalc
    /\ prev = <<>>
    /\ DashInit
    /\ CoreInit(NoScenario)
    /\ ConcInit

\* the computation of the 'close' handler on these statuses
CalcClose ==
    /\ calcResult' = [path |-> "close",
                      status |-> closeOverallStatus(withStatuses(closeLayers, calcStatuses)),
                      score |-> closeOverallScore(withStatuses(closeLayers, calcStatuses))]
    /\ UNCHANGED <<reqVars, calcStatuses, dashVars, coreVars,
                   concVars>>

\* the computation of generateMockValidationStatus on these statuses
CalcMock ==
    /\ calcResult' = [path |-> "mock",
                      status |-> mockOverallStatus(withStatuses(mockLayers, calcStatuses)),
                      score |-> mockOverallScore(withStatuses(mockLayers, calcStatuses))]
    /\ UNCHANGED <<reqVars, calcStatuses, dashVars, coreVars,
                   concVars>>

NextCalc == CalcClose \/ CalcMock

SpecCalc == InitCalc /\ [][NextCalc]_vars

(***************************************************************************)
(* Requests served side by side.  Every GET runs the handler anew: its     *)
(* child, its output and errorOutput and its resolve belong to the closure *)
(* of that call (+server.ts 26-40, part_002 18-32).  written and           *)
(* writtenErr record what the request's own child wrote.                   *)
(***************************************************************************)
\* the two handlers deployed side by side: /validation-status (+server.ts)
\* and /sim.json (part_002)
ConcHandlers == {"validation", "sim"}

\* resolve(r) in the closure of a request
settled(req, r) == IF req.response = <<>> THEN [req EXCEPT !.response = <<r>>] ELSE req

\* GET in the first slot that holds no request with a live child
ConcGet(i, h, outcome) ==
    /\ reqs[i].child \in {"none", "closed"}
    /\ \A j \in Slots : j < i => reqs[j].child \notin {"none", "closed"}
    /\ started < MaxRequests
    /\ started' = started + 1
    /\ reqs' = [reqs EXCEPT ![i] =
           IF takesMock(h, env)
           THEN [NoRequest EXCEPT !.handler = h,
                                  !.response = <<serverlessResponse(h, started')>>]
           ELSE IF outcome = "throw"
                THEN [NoRequest EXCEPT !.handler = h,
                                       !.response = <<catchResponse(h, started')>>]
                ELSE [NoRequest EXCEPT !.handler = h,
                          !.child = IF outcome = "started" THEN "running" ELSE "failed"]]
    /\ UNCHANGED <<reqVars, calcStatuses, calcResult, dashVars, coreVars>>

\* mutant: output is one buffer of the module, shared by the requests
ConcStdoutDataShared(i, c) ==
    /\ reqs[i].child = "running"
    /\ reqs[1].events + reqs[2].events < MaxChunks
    /\ reqs' = [j \in Slots |->
           IF j = i
           THEN [reqs[j] EXCEPT !.output = @ \o c, !.written = @ \o c,
                                !.events = @ + 1]
           ELSE IF reqs[j].child = "running"
                THEN [reqs[j] EXCEPT !.output = @ \o c]
                ELSE reqs[j]]
    /\ UNCHANGED <<started, reqVars, calcStatuses, calcResult, dashVars, coreVars>>

\* python.stdout.on('data') of request i
ConcStdoutData(i, c) ==
    /\ reqs[i].child = "running"
    /\ reqs[1].events + reqs[2].events < MaxChunks
    /\ reqs' = [reqs EXCEPT ![i].output = @ \o c, ![i].written = @ \o c,
                            ![i].events = @ + 1]
    /\ UNCHANGED <<started, reqVars, calcStatuses, calcResult, dashVars, coreVars>>

\* python.stderr.on('data') of request i
ConcStderrData(i, c) ==
    /\ reqs[i].child = "running"
    /\ reqs[1].events + reqs[2].events < MaxChunks
    /\ reqs' = [reqs EXCEPT ![i].errorOutput = @ \o c, ![i].writtenErr = @ \o c,
                            ![i].events = @ + 1]
    /\ UNCHANGED <<started, reqVars, calcStatuses, calcResult, dashVars, coreVars>>

\* python.on('close') of request i
ConcClose(i, code) ==
    /\ \/ reqs[i].child = "running" /\ code \in ExitCodes
       \/ reqs[i].child = "errored" /\ code = SpawnFailCode
    /\ reqs' = [reqs EXCEPT ![i] =
           [settled(reqs[i], closeResponse(reqs[i].handler, code, reqs[i].output,
                                           reqs[i].errorOutput, started))
                EXCEPT !.child = "closed", !.exitCode = <<code>>]]
    /\ UNCHANGED <<started, reqVars, calcStatuses, calcResult, dashVars, coreVars>>

\* python.on('error') of request i
ConcError(i) ==
    /\ reqs[i].child = "failed"
    /\ reqs' = [reqs EXCEPT ![i] =
           [settled(reqs[i], errorResponse(reqs[i].handler, started))
                EXCEPT !.child = "errored"]]
    /\ UNCHANGED <<started, reqVars, calcStatuses, calcResult, dashVars, coreVars>>

NextConc ==
    \/ \E i \in Slots, h \in ConcHandlers, outcome \in SpawnOutcomes :
           ConcGet(i, h, outcome)
    \/ \E i \in Slots, c \in StdoutChunks : ConcStdoutData(i, c)
    \/ \E i \in Slots, c \in StderrChunks : ConcStderrData(i, c)
    \/ \E i \in Slots, code \in ExitCodes \cup {SpawnFailCode} : ConcClose(i, code)
    \/ \E i \in Slots : ConcError(i)

\* the handlers without mock fallback do not read the environment
InitConc ==
    /\ Init
    /\ env = [VERCEL |-> Unset, AWS_LAMBDA_FUNCTION_NAME |-> Unset]

SpecConc == InitConc /\ [][NextConc]_vars

(***************************************************************************)
(* A run of the core: the fold over time                                   *)
(***************************************************************************)
\* one time step whose frequency modulation reads the contributions prior
stepFrom(prior) ==
    LET i == coreT + 1
        contrib == contributions(coreCfg, i, prior)
    IN  /\ coreT' = i
        /\ coreUsed' = prior
        /\ coreContrib' = contrib
        /\ coreS' = Append(coreS, total(contrib, Cardinality(Strates)))
        /\ gates' = Append(gates, [x |-> input(coreCfg, i),
                                   out |-> sigma(input(coreCfg, i))])
        /\ UNCHANGED <<coreCfg, reqVars, calcStatuses, calcResult, dashVars,
                     concVars>>

\* mutant: every step is computed on its own, from no prior signal
CoreStepDetached ==
    /\ coreT < MaxSteps
    /\ stepFrom(NoContrib)

\* step t + dt, computed from the aggregation of step t
CoreStep ==
    /\ coreT < MaxSteps
    /\ stepFrom(coreContrib)

InitCore ==
    /\ env = [VERCEL |-> Unset, AWS_LAMBDA_FUNCTION_NAME |-> Unset]
    /\ now = 0
    /\ handler = "none"
    /\ pc = "idle"
    /\ spawnCalls = 0
    /\ child = "none"
    /\ dataEvents = 0
    /\ exitCode = <<>>
    /\ output = <<>>
    /\ errorOutput = <<>>
    /\ response = <<>>
    /\ resolveCalls = 0
    /\ calcStatuses = closeStatuses
    /\ calcResult = NoCalc
    /\ prev = <<>>
    /\ DashInit
    /\ \E cfg \in Configs : CoreInit(cfg)
    /\ ConcInit

NextCore == CoreStep

SpecCore == InitCore /\ [][NextCore]_vars

(***************************************************************************)
(* The dashboard (+page.svelte).  A load is the call of                    *)
(* loadValidationStatus or loadSimulationResults up to its fetch, and its  *)
(* completion is the rest of the function.  The fetch is answered by one   *)
(* of the responses the handlers of the route can give, or throws.         *)
(***************************************************************************)
Tabs == {"mathematics", "results", "validation", "simulation"}

\* a stdout that parses: the two-sample trace
traceOutput == <<"{", "t0", "t1", "S", "S", "C", "C", "r", "r", "}">>

NetworkError == [thrown |-> TRUE]

\* what fetch('/validation-status') can come back with at time clock
ValidationOutcomes(clock) ==
    {validationClose(code, clock) : code \in ExitCodes}
        \cup {validationError, validationCatch, validationMockFallback(clock),
              NetworkError}

\* what fetch('/sim.json') can come back with
SimOutcomes ==
    {simClose(0, traceOutput, <<>>), simClose(1, <<>>, <<>>), simError,
     simMockServerless, simMockError, NetworkError}

\* response.ok
ok(o) == "status" \in DOMAIN o /\ o.status >= 200 /\ o.status <= 299

\* isLoading = true; ... await fetch(url)
StartLoad(kind) ==
    /\ isLoading' = TRUE
    /\ pending' = [pending EXCEPT ![kind] = @ + 1]
    /\ loads' = loads + 1

\* mutant: the reactive statements load on every entry of the tab
ClickTabReloads(tab) ==
    /\ tab /= currentTab
    /\ currentTab' = tab
    /\ IF tab = "validation"
       THEN loads < MaxLoads /\ StartLoad("validation")
       ELSE IF tab = "results"
            THEN loads < MaxLoads /\ StartLoad("results")
            ELSE UNCHANGED <<isLoading, pending, loads>>
    /\ UNCHANGED <<validationStatus, simulationResults, lastResult, showDetails,
                   toggles, reqVars, calcStatuses, calcResult, coreVars,
                   concVars>>

\* on:click={() => currentTab = tab.id}, then the two reactive statements
\* (+page.svelte 46-54), which run because currentTab changed
ClickTab(tab) ==
    /\ tab /= currentTab
    /\ currentTab' = tab
    /\ IF tab = "validation" /\ validationStatus = <<>>
       THEN loads < MaxLoads /\ StartLoad("validation")
       ELSE IF tab = "results" /\ simulationResults = <<>>
            THEN loads < MaxLoads /\ StartLoad("results")
            ELSE UNCHANGED <<isLoading, pending, loads>>
    /\ UNCHANGED <<validationStatus, simulationResults, lastResult, showDetails,
                   toggles, reqVars, calcStatuses, calcResult, coreVars,
                   concVars>>

\* the Refresh Status button, rendered with the loaded report
\* (+page.svelte 777-782)
RefreshStatus ==
    /\ currentTab = "validation"
    /\ validationStatus /= <<>>
    /\ loads < MaxLoads
    /\ StartLoad("validation")
    /\ UNCHANGED <<currentTab, validationStatus, simulationResults, lastResult,
                   showDetails, toggles, reqVars, calcStatuses, calcResult,
                   coreVars, concVars>>

\* mutant: a load that fails resets the status
ValidationLoadedClears(o, clock) ==
    /\ pending.validation > 0
    /\ clock = loads
    /\ validationStatus' = IF ok(o) THEN <<o.body>> ELSE <<>>
    /\ isLoading' = FALSE
    /\ pending' = [pending EXCEPT !.validation = @ - 1]
    /\ lastResult' = [kind |-> "validation", loaded |-> ok(o)]
    /\ UNCHANGED <<currentTab, simulationResults, loads, showDetails, toggles,
                   reqVars, calcStatuses, calcResult, coreVars, concVars>>

\* loadValidationStatus after its fetch (+page.svelte 16-24); the response
\* was built at time clock, one tick per load started
ValidationLoaded(o, clock) ==
    /\ pending.validation > 0
    /\ clock = loads
    /\ validationStatus' = IF ok(o) THEN <<o.body>> ELSE validationStatus
    /\ isLoading' = FALSE
    /\ pending' = [pending EXCEPT !.validation = @ - 1]
    /\ lastResult' = [kind |-> "validation", loaded |-> ok(o)]
    /\ UNCHANGED <<currentTab, simulationResults, loads, showDetails, toggles,
                   reqVars, calcStatuses, calcResult, coreVars, concVars>>

\* loadSimulationResults after its fetch (+page.svelte 30-38)
SimulationLoaded(o) ==
    /\ pending.results > 0
    /\ simulationResults' = IF ok(o) THEN <<o.body>> ELSE simulationResults
    /\ isLoading' = FALSE
    /\ pending' = [pending EXCEPT !.results = @ - 1]
    /\ lastResult' = [kind |-> "results", loaded |-> ok(o)]
    /\ UNCHANGED <<currentTab, validationStatus, loads, showDetails, toggles,
                   reqVars, calcStatuses, calcResult, coreVars, concVars>>

\* mutant: the object is rebuilt with the toggled key alone
toggledAlone(details, section) ==
    [k \in Sections |->
        IF k = section
        THEN IF details[k] = "true" THEN "false" ELSE "true"
        ELSE "undefined"]

\* showDetails[section] = !showDetails[section]; showDetails = { ...showDetails }
toggled(details, section) ==
    [details EXCEPT ![section] = IF @ = "true" THEN "false" ELSE "true"]

\* the Show Details button of an equation card, on the mathematics tab
\* (+page.svelte 344-349)
ToggleDetails(section) ==
    /\ currentTab = "mathematics"
    /\ toggles < MaxToggles
    /\ toggles' = toggles + 1
    /\ showDetails' = toggled(showDetails, section)
    /\ UNCHANGED <<currentTab, validationStatus, simulationResults, isLoading,
                   pending, loads, lastResult, reqVars, calcStatuses, calcResult,
                   coreVars, concVars>>

NextDash ==
    \/ \E tab \in Tabs : ClickTab(tab)
    \/ RefreshStatus
    \/ \E clock \in 1..MaxLoads :
           \E o \in ValidationOutcomes(clock) : ValidationLoaded(o, clock)
    \/ \E o \in SimOutcomes : SimulationLoaded(o)
    \/ \E section \in Sections : ToggleDetails(section)

InitDash ==
    /\ Init
    /\ env = [VERCEL |-> Unset, AWS_LAMBDA_FUNCTION_NAME |-> Unset]

SpecDash == InitDash /\ [][NextDash]_vars

(***************************************************************************)
(* What the validation tab renders (+page.svelte 623-851)                  *)
(***************************************************************************)
\* {#if validationStatus} ... {:else} the loading indicator {/if}
validationView ==
    IF currentTab /= "validation" THEN "hidden"
    ELSE IF validationStatus /= <<>> THEN "report" ELSE "loading"

\* the icon of a layer in the layer summary (+page.svelte 684-686)
layerIcon(layer) ==
    IF layer.status = "pass" THEN "check"
    ELSE IF layer.status = "fail" THEN "cross"
    ELSE IF layer.status = "partial" THEN "warning" ELSE "paused"

\* the Performance card of the metric cards (+page.svelte 835-842)
performanceCard == [title |-> "Performance", value |-> "TBD", mark |-> "warning"]

(***************************************************************************)
(* Reading a response                                                      *)
(***************************************************************************)
Responded == Len(response) = 1
Body == response[1].body
IsReport(b) == "layers" \in DOMAIN b
IsTrace(b) == "t" \in DOMAIN b
IsMockTrace(b) == IsTrace(b) /\ "note" \in DOMAIN b
Success == Responded /\ response[1].status = 200
SuccessReport == Success /\ IsReport(Body)

\* the child was spawned, ran and exited by itself with this code
ExitedWith(code) == exitCode = <<code>> /\ code \in ExitCodes

\* the score the spec's rule gives a list of layers, in thousandths
weightedFraction(layers) ==
    (countStatus(layers, "pass") * 1000 + countStatus(layers, "partial") * 500)
        \div Len(layers)

AllPass(st) == \A i \in DOMAIN st : st[i] = "pass"

C2_ScoreIsWeightedFraction ==
    SuccessReport => Body.overall_score = weightedFraction(Body.layers)

(***************************************************************************)
(* C3  Layer 1 reflects the exit code of the validation process: 'pass'    *)
(* when it exited with 0, not 'pass' when it exited non-zero.  The 'close' *)
(* handler never reads the code.                                           *)
(***************************************************************************)
C3_Layer1ReflectsExitCode ==
    (handler \in ValidationHandlers /\ SuccessReport) =>
        /\ ExitedWith(0) => Body.layers[1].status = "pass"
        /\ ExitedWith(1) => Body.layers[1].status /= "pass"

(***************************************************************************)
(* C4  A layer whose dependency is missing (reference images of layer 5,   *)
(* reference hashes of layer 2) is 'not_implemented', and the report is    *)
(* still a success response with all five layers.  Layer 2 of the 'close'  *)
(* handler is 'partial' with reference_hashes_exist false.                 *)
(***************************************************************************)
C4_MissingDependencyNotImplemented ==
    /\ (handler \in ValidationHandlers /\ (ExitedWith(0) \/ ExitedWith(1))) => SuccessReport
    /\ SuccessReport =>
        /\ Len(Body.layers) = 5
        /\ ~Body.layers[5].details.reference_images_exist
               => Body.layers[5].status = "not_implemented"
        /\ ~Body.layers[2].details.reference_hashes_exist
               => Body.layers[2].status = "not_implemented"

(***************************************************************************)
(* C5  Every report returned with success has overall_status in            *)
(* {pass, fail}, an overall_score in [0, 1] and exactly five layers with   *)
(* ids 1..5 in ascending order, each with id, name, status (one of the     *)
(* four statuses), details, description and requirement.                   *)
(***************************************************************************)
LayerFields == {"id", "name", "status", "details", "description", "requirement"}

C5_ReportShape ==
    SuccessReport =>
        /\ Body.overall_status \in {"pass", "fail"}
        /\ Body.overall_score >= 0
        /\ Body.overall_score <= 1000
        /\ Len(Body.layers) = 5
        /\ \A i \in 1..Len(Body.layers) :
            /\ LayerFields \subseteq DOMAIN Body.layers[i]
            /\ Body.layers[i].id = i
            /\ Body.layers[i].status \in Statuses

\* a report built by the 'close' handler of a child that exited non-zero
C5_Witness ==
    /\ SuccessReport
    /\ handler = "validation"
    /\ ExitedWith(1)
    /\ Len(Body.layers) = 5

(***************************************************************************)
(* C6  Failing metrics or layers are no error: when the validation process *)
(* ran, whatever its exit code, the endpoint answers with a success        *)
(* response holding the full report with the failing layers in it; an      *)
(* error response only follows a process that could not be spawned or a    *)
(* throw in the handler.                                                   *)
(***************************************************************************)
C6_FailuresAreNotErrors ==
    handler \in ValidationHandlers =>
        /\ (ExitedWith(0) \/ ExitedWith(1)) =>
            /\ SuccessReport
            /\ Len(Body.layers) = 5
            /\ \E i \in 1..Len(Body.layers) : Body.layers[i].status = "fail"
        /\ (Responded /\ response[1].status = 500) =>
            \/ child = "errored"
            \/ exitCode = <<SpawnFailCode>>
            \/ child = "none" /\ spawnCalls = 1

\* the validation script exited with 1 after writing to stderr, and the
\* answer is a success report with failing layers
C6_Witness ==
    /\ handler = "validation"
    /\ ExitedWith(1)
    /\ errorOutput /= <<>>
    /\ SuccessReport
    /\ Body.layers[3].status = "fail"

(***************************************************************************)
(* C7  No response body of /sim.json or /validation-status on a failure    *)
(* path holds the unprocessed stderr text of the Python process.  Both     *)
(* /sim.json handlers copy errorOutput into the body when the exit code is *)
(* not 0.                                                                  *)
(***************************************************************************)
C7_NoRawStderrInBody ==
    (Responded /\ errorOutput /= <<>> /\ ~IsReport(Body)) =>
        /\ "details" \in DOMAIN Body => Body.details /= errorOutput
        /\ "error" \in DOMAIN Body => Body.error /= errorOutput

(***************************************************************************)
(* C8  With VERCEL or AWS_LAMBDA_FUNCTION_NAME set, the handlers answer    *)
(* with mock data and never call spawn; otherwise every request calls      *)
(* spawn exactly once before any mock fallback.  The handlers without mock *)
(* fallback never look at the environment.                                 *)
(***************************************************************************)
EnvSet(e) == e.VERCEL /= Unset \/ e.AWS_LAMBDA_FUNCTION_NAME /= Unset

IsMockBody(b) ==
    \/ IsMockTrace(b)
    \/ IsReport(b) /\ "note" \in DOMAIN b.layers[1].details

C8_ServerlessNeverSpawns ==
    handler \in Handlers =>
        /\ EnvSet(env) => (spawnCalls = 0 /\ Responded /\ IsMockBody(Body))
        /\ ~EnvSet(env) => spawnCalls = 1

(***************************************************************************)
(* C9  Every time series served by /sim.json is well formed: t, S, C and r *)
(* have one length, that length is ceil(T/dt)+1 for the duration covered,  *)
(* and t is strictly increasing - for the mock trace and for any body      *)
(* passed through from the Python process.  The handlers pass any parsed   *)
(* document through unchecked.                                             *)
(***************************************************************************)
CeilDiv(a, b) == (a + b - 1) \div b

WellFormedTrace(b) ==
    /\ Len(b.t) >= 1
    /\ Len(b.S) = Len(b.t)
    /\ Len(b.C) = Len(b.t)
    /\ Len(b.r) = Len(b.t)
    /\ \A i \in 1..(Len(b.t) - 1) : b.t[i] < b.t[i + 1]
    /\ Len(b.t) >= 2 =>
           Len(b.t) = CeilDiv(b.t[Len(b.t)] - b.t[1], b.t[2] - b.t[1]) + 1

C9_ServedTraceWellFormed ==
    (handler \in SimHandlers /\ Success /\ IsTrace(Body)) => WellFormedTrace(Body)

(***************************************************************************)
(* C10  Spiral ratio boundedness of the traces the handlers produce        *)
(* themselves (the mock trace): at every sample |r - phi| <= epsilon, that *)
(* is, r stays in [1.568, 1.668].                                          *)
(***************************************************************************)
Abs(x) == IF x < 0 THEN 0 - x ELSE x

C10_MockSpiralRatioBounded ==
    (Responded /\ IsMockTrace(Body)) =>
        /\ Len(Body.r) = N
        /\ \A i \in 1..Len(Body.r) :
            /\ Abs(Body.r[i] - phi) <= epsilon
            /\ Body.r[i] >= 15680
            /\ Body.r[i] <= 16680

\* a mock trace served after the simulation script failed, whose r really
\* moves away from phi
C10_Witness ==
    /\ handler = "simMock"
    /\ ExitedWith(1)
    /\ Responded
    /\ IsMockTrace(Body)
    /\ \E i \in 1..Len(Body.r) : Abs(Body.r[i] - phi) > epsilon - 10

(***************************************************************************)
(* C12  Layer 3 (Metric Compliance) is 'pass' only if all seven metrics    *)
(* pass (passed_metrics = total_metrics = 7, failed_metrics empty); with   *)
(* any failed metric it is not 'pass'.                                     *)
(***************************************************************************)
Metrics(b) == b.layers[3].details

C12_Layer3PassOnlyIfAllMetricsPass ==
    SuccessReport =>
        /\ Body.layers[3].status = "pass" =>
            /\ Metrics(Body).passed_metrics = 7
            /\ Metrics(Body).total_metrics = 7
            /\ Metrics(Body).failed_metrics = <<>>
        /\ Metrics(Body).failed_metrics /= <<>> => Body.layers[3].status /= "pass"

\* the mock report: one metric failed, layer 3 'partial'
C12_Witness ==
    /\ SuccessReport
    /\ IsMockBody(Body)
    /\ Len(Metrics(Body).failed_metrics) = 1
    /\ Body.layers[3].status = "partial"

(***************************************************************************)
(* C13  A metric is reported as failed exactly when its value violates its *)
(* pass condition: fluidity is in failed_metrics iff fluidity_variance is  *)
(* not < fluidity_threshold, stability iff stability_percentage is not     *)
(* >= stability_threshold.                                                 *)
(***************************************************************************)
InSeq(x, seq) == \E i \in 1..Len(seq) : seq[i] = x

C13_FailedIffThresholdViolated ==
    SuccessReport =>
        /\ InSeq("fluidity", Metrics(Body).failed_metrics)
               <=> ~(Metrics(Body).fluidity_variance < Metrics(Body).fluidity_threshold)
        /\ InSeq("stability", Metrics(Body).failed_metrics)
               <=> ~(Metrics(Body).stability_percentage >= Metrics(Body).stability_threshold)

\* the report of the 'close' handler: both metrics violate their thresholds
\* and both are listed
C13_Witness ==
    /\ SuccessReport
    /\ handler = "validation"
    /\ ExitedWith(0)
    /\ InSeq("fluidity", Metrics(Body).failed_metrics)
    /\ InSeq("stability", Metrics(Body).failed_metrics)
    /\ Metrics(Body).stability_percentage < Metrics(Body).stability_threshold

SpawnFailed == child = "errored" \/ exitCode = <<SpawnFailCode>>

C18_StartFailureFallback ==
    SpawnFailed =>
        /\ Responded
        /\ handler = "validationMock" =>
               (response[1].status = 200 /\ IsReport(Body) /\ IsMockBody(Body))
        /\ handler = "simMock" =>
               /\ response[1].status = 200
               /\ IsMockTrace(Body)
               /\ Body.note = "Mock data - Failed to start Python simulation"
        /\ handler \in {"validation", "sim"} =>
               (response[1].status = 500 /\ "error" \in DOMAIN Body)

\* the spawn failed, 'error' and then 'close' were both delivered, and the
\* answer of the validation handler with mock is still the mock report
C18_Witness ==
    /\ handler = "validationMock"
    /\ exitCode = <<SpawnFailCode>>
    /\ resolveCalls = 2
    /\ Responded
    /\ IsMockBody(Body)

(***************************************************************************)
(* C19  Each GET yields exactly one Response: the first of the 'close' and *)
(* 'error' handlers to run settles the promise, and a later event of the   *)
(* same request neither replaces nor duplicates the Response.              *)
(***************************************************************************)
C19_ExactlyOneResponse ==
    [][ /\ Len(response') <= 1
        /\ (now' = now /\ Len(response) = 1) => response' = response
        /\ (now' = now /\ Len(response) = 0 /\ resolveCalls' > resolveCalls)
               => Len(response') = 1 ]_vars

\* a second resolve() happened for the request and one Response stands
C19_Witness ==
    /\ resolveCalls = 2
    /\ Len(response) = 1
    /\ child = "closed"

(***************************************************************************)
(* C20  Every GET is eventually answered provided the spawned child        *)
(* eventually emits 'close' or 'error'; and nothing else answers a pending *)
(* request (the handlers have no timeout), so without such an event the    *)
(* request stays pending.                                                  *)
(***************************************************************************)
C20_AnsweredOnceChildEnds ==
    /\ (pc = "waiting") ~> (pc = "done")
    /\ [][ (pc = "waiting" /\ pc' = "done") => child' \in {"closed", "errored"} ]_vars

\* a request answered by the 'close' of a child that had written output
C20_Witness ==
    /\ pc = "done"
    /\ ExitedWith(0)
    /\ dataEvents >= 1
    /\ Responded

(***************************************************************************)
(* C11  Determinism of the code present: any two mock traces carry the     *)
(* same series, any two serverless /sim.json responses have identical      *)
(* bodies, and two validation reports built by the same path (both mock    *)
(* reports, or both reports of the 'close' handler) differ at most in      *)
(* last_updated.                                                           *)
(***************************************************************************)
ServerlessTrace(b) == IsMockTrace(b) /\ b.note = simMockServerless.body.note

WithoutTimestamp(b) == [b EXCEPT !.last_updated = 0]

SamePath(a, b) == IsReport(a) /\ IsReport(b) /\ (IsMockBody(a) <=> IsMockBody(b))

C11_WitnessReports ==
    /\ Len(prev) = 1
    /\ Responded
    /\ SamePath(prev[1], Body)
    /\ ~IsMockBody(Body)
    /\ prev[1].last_updated /= Body.last_updated

(***************************************************************************)
(* C15  A comparison that could not be computed is reported apart and is   *)
(* neither counted nor displayed as a pass: in every report the dashboard  *)
(* loads, a regulation comparison that is not implemented has              *)
(* regulation_passed null, its layer is not 'pass', the report is not      *)
(* 'pass', and the validation tab shows neither the layer nor the          *)
(* Performance card with the mark of a pass.                               *)
(***************************************************************************)
RegulationNotCompared(report) ==
    ~report.layers[4].details.regulation_comparison_implemented

C16_StepsInOrder ==
    [][ /\ coreT' = coreT + 1
        /\ Len(coreS') = coreT' + 1
        /\ SubSeq(coreS', 1, Len(coreS)) = coreS
        /\ coreUsed' = coreContrib
        /\ coreS'[Len(coreS')] =
               total(contributions(coreCfg, coreT', coreContrib),
                     Cardinality(Strates)) ]_coreVars

\* a run carried to its last step, whose last frequency modulation was
\* moved by the signal of the step before
C16_Witness ==
    /\ coreT = MaxSteps
    /\ Len(coreS) = MaxSteps + 1
    /\ deltaF(coreUsed) /= 0

(***************************************************************************)
(* C17  Every value sigma returned lies strictly between 0 and 1, and of   *)
(* two applications the one with the larger argument did not return the    *)
(* smaller value.                                                          *)
(***************************************************************************)
SigmaMonotone ==
    \A i, j \in DOMAIN gates :
        gates[i].x <= gates[j].x => gates[i].out <= gates[j].out

IsPrefix(a, b) == Len(a) <= Len(b) /\ SubSeq(b, 1, Len(a)) = a

PythonData == Success /\ IsTrace(Body) /\ ~IsMockTrace(Body)

ParseFailureBranch ==
    /\ handler = "sim" =>
           /\ response[1].status = 500
           /\ Body.error = <<"Failed to parse simulation results">>
    /\ handler = "simMock" =>
           /\ IsMockTrace(Body)
           /\ Body.note = "Mock data - Failed to parse Python simulation results"

SimDataOnlyFromCleanRun ==
    (handler \in SimHandlers /\ Responded) =>
        /\ PythonData <=> (ExitedWith(0) /\ isJSON(output))
        /\ PythonData => Body = JSONparse(output)
        /\ (ExitedWith(0) /\ ~isJSON(output)) => ParseFailureBranch

ChunksInArrivalOrder ==
    now' = now =>
        /\ IsPrefix(output, output')
        /\ IsPrefix(errorOutput, errorOutput')
        /\ output' /= output =>
               /\ errorOutput' = errorOutput
               /\ \E c \in StdoutChunks : output' = output \o c
        /\ errorOutput' /= errorOutput =>
               /\ output' = output
               /\ \E c \in StderrChunks : errorOutput' = errorOutput \o c

C21_SimDataOnlyFromCleanRun ==
    /\ []SimDataOnlyFromCleanRun
    /\ [][ChunksInArrivalOrder]_vars

\* the child wrote a trace in two chunks and a line on stderr, exited with
\* code 0, and the trace is the body
C21_Witness ==
    /\ handler \in SimHandlers
    /\ PythonData
    /\ ExitedWith(0)
    /\ Len(output) > 5
    /\ Len(errorOutput) > 0
    /\ Len(Body.t) = 2

\* the child wrote a trace that parses and exited with code 1
C21_WitnessFailedRun ==
    /\ handler \in SimHandlers
    /\ Responded
    /\ ExitedWith(1)
    /\ isJSON(output)
    /\ ~PythonData

(***************************************************************************)
(* C22  In the /sim.json handler without mock fallback every failure path  *)
(* (non-zero exit code, output that does not parse, failed spawn, thrown   *)
(* exception) answers with status 500 and a body with an 'error' field and *)
(* no time series; the handler with mock fallback never answers with a     *)
(* status other than 200.                                                  *)
(***************************************************************************)
CleanRun == ExitedWith(0) /\ isJSON(output)

C22_WitnessMock ==
    /\ handler = "simMock"
    /\ ExitedWith(1)
    /\ Responded
    /\ response[1].status = 200

(***************************************************************************)
(* C23  Every /sim.json response that carries the synthetic series is      *)
(* marked: it has a top-level note, one of the handler's notes, which all  *)
(* begin with 'Mock data'; and a response passed through from a successful *)
(* Python run carries no note.                                             *)
(***************************************************************************)
MockDataNotes ==
    { "Mock data - Python backend not available in serverless environment",
      "Mock data - Python simulation failed",
      "Mock data - Failed to parse Python simulation results",
      "Mock data - Failed to start Python simulation",
      "Mock data - Internal server error" }

Synthetic(b) == IsTrace(b) /\ b.S = generateMockSimData.S /\ b.t = generateMockSimData.t

C23_SyntheticDataIsMarked ==
    (handler \in SimHandlers /\ Responded) =>
        /\ Synthetic(Body) => ("note" \in DOMAIN Body /\ Body.note \in MockDataNotes)
        /\ CleanRun => (IsTrace(Body) /\ "note" \notin DOMAIN Body)

\* the synthetic series served after the spawn failed, with its note
C23_Witness ==
    /\ handler = "simMock"
    /\ Responded
    /\ child = "errored"
    /\ Synthetic(Body)
    /\ Body.note = "Mock data - Failed to start Python simulation"

(***************************************************************************)
(* C24  Requests served side by side are isolated: under every             *)
(* interleaving of their data, close and error events the buffers of a     *)
(* request hold exactly what its own child wrote, its response is built    *)
(* from that alone, an event of one request changes no other request, and  *)
(* a new request starts with empty buffers and no response of an earlier   *)
(* one.                                                                    *)
(***************************************************************************)
OwnOutputOnly ==
    \A i \in Slots :
        /\ reqs[i].output = reqs[i].written
        /\ reqs[i].errorOutput = reqs[i].writtenErr
        /\ (reqs[i].handler = "sim" /\ reqs[i].exitCode /= <<>>
                /\ reqs[i].exitCode[1] \in ExitCodes) =>
               reqs[i].response =
                   <<simClose(reqs[i].exitCode[1], reqs[i].written, reqs[i].writtenErr)>>

OneRequestPerEvent ==
    /\ Cardinality({i \in Slots : reqs'[i] /= reqs[i]}) <= 1
    /\ \A i \in Slots :
           started' /= started /\ reqs'[i] /= reqs[i] =>
               /\ reqs'[i].output = <<>>
               /\ reqs'[i].errorOutput = <<>>
               /\ reqs'[i].exitCode = <<>>
               /\ reqs'[i].child = "none" => Len(reqs'[i].response) = 1
               /\ reqs'[i].child /= "none" => reqs'[i].response = <<>>

C24_RequestsIsolated ==
    /\ []OwnOutputOnly
    /\ [][OneRequestPerEvent]_vars

\* two /sim.json requests in flight whose children wrote different output,
\* one of them answered while the other still runs
C24_Witness ==
    /\ reqs[1].handler = "sim"
    /\ reqs[2].handler = "sim"
    /\ reqs[1].written /= <<>>
    /\ reqs[2].written /= <<>>
    /\ reqs[1].written /= reqs[2].written
    /\ Len(reqs[1].response) = 1
    /\ reqs[2].child = "running"

\* a slot serving its second request, after one that had output
C24_WitnessReuse ==
    /\ started = 2
    /\ reqs[2].handler = "none"
    /\ reqs[1].child = "running"
    /\ reqs[1].output = <<>>

(***************************************************************************)
(* C25  A load starts by itself only when the validation tab becomes       *)
(* current with no status loaded (a load of the status) or the results tab *)
(* becomes current with no results loaded (a load of the results), and     *)
(* then it does start; the one other start of a load is the Refresh Status *)
(* button.  So once a value is loaded, switching tabs loads it no more.    *)
(***************************************************************************)
Started(kind) ==
    /\ loads' = loads + 1
    /\ pending'[kind] = pending[kind] + 1
    /\ \A other \in DOMAIN pending : other /= kind => pending'[other] = pending[other]

BecomesCurrent(tab) == currentTab /= tab /\ currentTab' = tab

ByRefreshButton ==
    /\ currentTab = "validation"
    /\ currentTab' = "validation"
    /\ validationStatus /= <<>>
    /\ Started("validation")

AutomaticLoadsOnly ==
    /\ (BecomesCurrent("validation") /\ validationStatus = <<>>) => Started("validation")
    /\ (BecomesCurrent("results") /\ simulationResults = <<>>) => Started("results")
    /\ loads' /= loads =>
           \/ BecomesCurrent("validation") /\ validationStatus = <<>> /\ Started("validation")
           \/ BecomesCurrent("results") /\ simulationResults = <<>> /\ Started("results")
           \/ ByRefreshButton
    /\ (currentTab' /= currentTab /\ validationStatus /= <<>>) =>
           pending'.validation = pending.validation
    /\ (currentTab' /= currentTab /\ simulationResults /= <<>>) =>
           pending'.results = pending.results

C25_AutomaticLoadsOnly == [][AutomaticLoadsOnly]_vars

\* the validation tab entered again with the status loaded: one load of
\* each kind was made before, and entering started none
C25_Witness ==
    /\ currentTab = "validation"
    /\ validationStatus /= <<>>
    /\ lastResult.kind = "results"
    /\ loads = 2
    /\ pending = NoLoads

(***************************************************************************)
(* C26  A load that fails (the fetch throws, or the response is not ok)    *)
(* leaves validationStatus and simulationResults as they were and starts   *)
(* no other load; and with no status loaded the validation tab shows the   *)
(* loading indicator, also after the failure.                              *)
(***************************************************************************)
FailedLoadCompletes ==
    /\ \E kind \in DOMAIN pending : pending'[kind] = pending[kind] - 1
    /\ ~lastResult'.loaded

FailedLoadKeepsData ==
    FailedLoadCompletes =>
        /\ validationStatus' = validationStatus
        /\ simulationResults' = simulationResults
        /\ currentTab' = currentTab
        /\ loads' = loads
        /\ \A kind \in DOMAIN pending : pending'[kind] <= pending[kind]

LoadingShownWithoutStatus ==
    (currentTab = "validation" /\ validationStatus = <<>>) => validationView = "loading"

C26_FailedLoadKeepsData ==
    /\ []LoadingShownWithoutStatus
    /\ [][FailedLoadKeepsData]_vars

\* a refresh failed: the report loaded before is still there
C26_Witness ==
    /\ validationStatus /= <<>>
    /\ lastResult = [kind |-> "validation", loaded |-> FALSE]
    /\ validationView = "report"
    /\ pending = NoLoads

\* the first load failed: the tab shows the loading indicator, nothing is
\* in flight
C26_WitnessIndicator ==
    /\ currentTab = "validation"
    /\ validationStatus = <<>>
    /\ lastResult = [kind |-> "validation", loaded |-> FALSE]
    /\ pending = NoLoads
    /\ validationView = "loading"

(***************************************************************************)
(* C27  isLoading is true exactly while at least one load is in flight:    *)
(* a load that completes does not clear the flag while another is pending. *)
(***************************************************************************)
LoadsInFlight == pending.validation + pending.results

Tests(b) == b.layers[1].details

\* num / den rounded to thousandths
toThreeDecimals(num, den) == (2 * 1000 * num + den) \div (2 * den)

TestCountsConsistent(b) ==
    /\ Tests(b).passed_tests + Tests(b).failed_tests = Tests(b).total_tests
    /\ Len(Tests(b).failures) = Tests(b).failed_tests

MetricCountsConsistent(b) ==
    /\ Metrics(b).pass_rate =
           toThreeDecimals(Metrics(b).passed_metrics, Metrics(b).total_metrics)
    /\ Len(Metrics(b).failed_metrics) =
           Metrics(b).total_metrics - Metrics(b).passed_metrics

C28_LayerCountsConsistent ==
    SuccessReport => TestCountsConsistent(Body) /\ MetricCountsConsistent(Body)

\* the report of the 'close' handler: 7 + 5 tests of 12, 5 of 7 metrics
C28_Witness ==
    /\ SuccessReport
    /\ handler = "validation"
    /\ Tests(Body).failed_tests = 5
    /\ Metrics(Body).pass_rate = 714

\* the mock report: 9 + 3 tests of 12, 6 of 7 metrics
C28_WitnessMock ==
    /\ SuccessReport
    /\ handler = "validationMock"
    /\ Tests(Body).failed_tests = 3
    /\ Metrics(Body).pass_rate = 857

(***************************************************************************)
(* C29  toggleDetails(section) flips the visibility of the named section   *)
(* and of no other, and leaves the current tab and the loaded data alone;  *)
(* applied twice to a section it restores that section's visibility.       *)
(***************************************************************************)
\* {#if showDetails[`eq${equation.id}`]}: undefined is hidden
Visible(details, section) == details[section] = "true"

TogglesNamedSectionOnly ==
    \A section \in Sections :
        /\ Visible(toggled(showDetails, section), section) = ~Visible(showDetails, section)
        /\ \A other \in Sections \ {section} :
               toggled(showDetails, section)[other] = showDetails[other]
        /\ Visible(toggled(toggled(showDetails, section), section), section)
               = Visible(showDetails, section)

ToggleStep == toggles' = toggles + 1

ToggleChangesOneSection ==
    ToggleStep =>
        /\ \E section \in Sections :
               /\ Visible(showDetails', section) = ~Visible(showDetails, section)
               /\ \A other \in Sections \ {section} :
                      showDetails'[other] = showDetails[other]
        /\ UNCHANGED <<currentTab, validationStatus, simulationResults,
                       isLoading, pending, loads>>

C29_ToggleFlipsNamedSectionOnly ==
    /\ []TogglesNamedSectionOnly
    /\ [][ToggleChangesOneSection]_vars

\* one section shown and then hidden again by a second toggle, no other
\* section touched
C29_Witness ==
    /\ toggles = 2
    /\ \E section \in Sections :
           /\ showDetails[section] = "false"
           /\ \A other \in Sections \ {section} : showDetails[other] = "undefined"

\* two sections shown side by side, with a report loaded before
C29_WitnessTwoSections ==
    /\ toggles = 2
    /\ Cardinality({section \in Sections : Visible(showDetails, section)}) = 2
    /\ validationStatus /= <<>>

====
